---- MODULE Spec2Model ----
(***************************************************************************)
(* State-machine model of the retrieval-augmented pipeline of lmi-agent:   *)
(* the embedding generator (app/rag/embeddings.py), the retriever          *)
(* (app/rag/retriever.py) and the two ingestion loops                      *)
(* (app/services/ingestion.py, scripts/ingest_data.py) over the posting    *)
(* store (app/database.py).                                                *)
(***************************************************************************)
EXTENDS Integers, Sequences, FiniteSets, TLC

(***************************************************************************)
(* Bounds of the model.                                                    *)
(***************************************************************************)
MaxTexts == 3            \* longest text list handed to generate_embeddings_batch
MaxJobs == 2             \* longest list of raw postings of one ingestion run
MaxRuns == 2             \* ingestion runs in one behaviour
MaxTextLen == 8          \* longest text handed to chunk_text
MaxRows == 3             \* rows of skill_analyses
MaxClock == 3            \* hours the clock runs
MaxCalls == 2            \* calls of analyze_skills in one behaviour

(***************************************************************************)
(* Program constants.                                                      *)
(***************************************************************************)
max_retries == 3         \* _extract_embeddings_direct(max_retries=3)
default_batch_size == 8  \* generate_embeddings_batch(batch_size=8)
service_batch_size == 5  \* JobIngestionService: batch_size=5
chunk_size == 512        \* settings.chunk_size
chunk_overlap == 100     \* settings.chunk_overlap
embedding_dimension == 384  \* settings.embedding_dimension
retrieval_top_k == 5     \* settings.retrieval_top_k
commit_every_default == 5   \* JobIngestionPipeline(commit_every=5)

(***************************************************************************)
(* Small helpers.                                                          *)
(***************************************************************************)
Min(a, b) == IF a <= b THEN a ELSE b

MaxOf(S) == IF S = {} THEN 0 ELSE CHOOSE x \in S : \A y \in S : y <= x

Range(s) == {s[k] : k \in 1..Len(s)}

(***************************************************************************)
(* Texts.  A text is kept as a key that names its content and a flag that  *)
(* says whether it is empty or whitespace-only (not text.strip()).         *)
(***************************************************************************)
Text(key, blank) == [key |-> key, blank |-> blank]

EmptyText == Text(<<>>, TRUE)          \* ""

SpaceText == Text(<<0>>, TRUE)         \* "   "

SampleTexts == {EmptyText, SpaceText, Text(<<1>>, FALSE), Text(<<2>>, FALSE)}

(***************************************************************************)
(* The embedding generator.                                                *)
(***************************************************************************)
\* The two model names the source configures: settings.embedding_model and
\* the constructor's own default.
MiniLM == "sentence-transformers/all-MiniLM-L6-v2"

BgeSmall == "BAAI/bge-small-en-v1.5"

ModelNames == {MiniLM, BgeSmall}

\* self.dimension = 384 if "MiniLM" in self.model_name else 768
dimension(name) == IF name = MiniLM THEN 384 ELSE 768

\* The length of the vectors the inference API returns for a model.  Both
\* all-MiniLM-L6-v2 and bge-small-en-v1.5 are 384-dimensional models.
ProviderDim(name) == 384

\* A vector: a provider's embedding of the text named by key, or
\* [0.0] * n, and its length.
ZeroVector(n) == [of |-> "zero", key |-> <<>>, dim |-> n]

ProviderVector(tx, name) == [of |-> "text", key |-> tx.key, dim |-> ProviderDim(name)]


(***************************************************************************)
(* State.                                                                  *)
(***************************************************************************)
VARIABLES
    model_name,      \* the generator's model (fixed at construction)
    caller,          \* who runs the generator: "none", "embed_many", "embed_one", "retrieve", "ingest"
    epc,             \* position: "idle", "batch", "item", "returned", "done"
    texts,           \* generate_embeddings_batch: texts
    batch_size,      \* generate_embeddings_batch: batch_size
    i,               \* generate_embeddings_batch: start of the current batch (0-based)
    t,               \* fallback loop: position in the current batch (1-based)
    attempt,         \* _extract_embeddings_direct: attempt (0-based)
    wait,            \* seconds of the last sleep of the current _extract_embeddings_direct call
    all_embeddings,  \* generate_embeddings_batch: all_embeddings
    only503,         \* history: every provider response of the current call was a 503
    saw401,          \* history: a provider response of the current call was a 401
    outcome,         \* what the top-level call gave its caller
    rq,              \* retrieve's arguments: query, top_k, filters
    last             \* history: query vector and result of the retrieve call now repeated

embedVars == <<model_name, caller, epc, texts, batch_size, i, t, attempt, wait, all_embeddings, only503, saw401, outcome, rq, last>>

VARIABLES
    store,           \* the committed database: postings and chunks
    db,              \* self.db: the session's view, with its uncommitted writes
    variant,         \* "service" (JobIngestionService) or "script" (JobIngestionPipeline)
    commit_every,    \* JobIngestionPipeline.commit_every
    njobs,           \* len(jobs) of the current run
    idx,             \* index of the raw posting the loop is at (0-based)
    stats,           \* self.stats
    ipc,             \* position of the run: "idle", "loop", "embedding", "final", "returned"
    cur,             \* the posting whose chunks are being embedded
    counted,         \* history: job_ids this run counted as new or updated
    runs             \* history: ingestion runs begun

ingestVars == <<store, db, variant, commit_every, njobs, idx, stats, ipc, cur, counted, runs>>

\* One call of chunk_text(text, chunk_size, overlap): its arguments (ctext,
\* csize, coverlap), its locals start and chunks (cstart, cchunks), where
\* it stands (cpc) and the turns of its loop so far (cturns).
VARIABLES
    ctext,
    csize,
    coverlap,
    cstart,
    cchunks,
    cpc,
    cturns

chunkVars == <<ctext, csize, coverlap, cstart, cchunks, cpc, cturns>>

\* The analysis cache: the committed rows of skill_analyses, the clock that
\* datetime.utcnow() reads, and the last call of _cache_analysis or
\* _get_cached_analysis with its arguments and its result; the last call of
\* analyze_skills with its arguments, what it invoked and what it returned.
VARIABLES
    skill_analyses,
    now,
    cache_op,
    analyze_op

cacheVars == <<skill_analyses, now, cache_op, analyze_op>>

\* Two runs of JobIngestionService._ingest_jobs at once, each on a session of
\* its own and with one raw posting: where each stands, its posting, the
\* rows its transaction has written and not yet committed, and how its turn
\* ended.
VARIABLES
    sess

raceVars == <<sess>>

vars == <<embedVars, ingestVars, chunkVars, cacheVars, raceVars>>

NoOutcome == [kind |-> "none", value |-> <<>>]

Value(v) == [kind |-> "value", value |-> v]

Error(e) == [kind |-> "error", value |-> <<e>>]

NoQuery == [query |-> EmptyText, top_k |-> 0, location |-> <<>>, min_date |-> 0, role |-> <<>>]

NoLast == [kind |-> "none", qv |-> <<>>, outcome |-> NoOutcome]

(***************************************************************************)
(* generate_embeddings_batch and _extract_embeddings_direct.               *)
(***************************************************************************)
\* batch = texts[i:i + batch_size]
Batch == SubSeq(texts, i + 1, Min(i + batch_size, Len(texts)))

\* The loop "for i in range(0, len(texts), batch_size)" moves to the next
\* batch, or generate_embeddings_batch returns all_embeddings.
NextBatch(embs) ==
    /\ all_embeddings' = embs
    /\ attempt' = 0
    /\ wait' = 0
    /\ t' = 1
    /\ IF i + batch_size < Len(texts)
         THEN i' = i + batch_size /\ epc' = "batch"
         ELSE i' = i /\ epc' = "returned"

\* The fallback loop "for t in batch" moves to the next text of the batch,
\* or the batch is finished.
NextItem(embs) ==
    IF t < Len(Batch)
      THEN /\ all_embeddings' = embs
           /\ t' = t + 1
           /\ attempt' = 0
           /\ wait' = 0
           /\ epc' = "item"
           /\ i' = i
      ELSE NextBatch(embs)

\* _extract_embeddings_direct returns: the batch call extends all_embeddings
\* with the provider's vectors, the individual call appends its one vector.
ExtractReturns_Reversed ==
    IF epc = "batch"
      THEN NextBatch(all_embeddings \o
             [k \in 1..Len(Batch) |-> ProviderVector(Batch[Len(Batch) + 1 - k], model_name)])
      ELSE NextItem(Append(all_embeddings, ProviderVector(Batch[t], model_name)))

ExtractReturns ==
    IF epc = "batch"
      THEN NextBatch(all_embeddings \o [k \in 1..Len(Batch) |-> ProviderVector(Batch[k], model_name)])
      ELSE NextItem(Append(all_embeddings, ProviderVector(Batch[t], model_name)))

\* _extract_embeddings_direct raises: a failed batch call starts the
\* individual calls, a failed individual call appends a zero vector.
ExtractRaises_DiscardBatch ==
    IF epc = "batch"
      THEN NextBatch(all_embeddings \o [k \in 1..Len(Batch) |-> ZeroVector(dimension(model_name))])
      ELSE NextItem(Append(all_embeddings, ZeroVector(dimension(model_name))))

ExtractRaises ==
    IF epc = "batch"
      THEN /\ epc' = "item"
           /\ t' = 1
           /\ attempt' = 0
           /\ wait' = 0
           /\ UNCHANGED <<all_embeddings, i>>
      ELSE NextItem(Append(all_embeddings, ZeroVector(dimension(model_name))))

\* One more turn of "for attempt in range(max_retries)" after sleeping w
\* seconds, or RuntimeError("Failed after 3 retries") when the loop ends.
Retry(w) ==
    IF attempt + 1 < max_retries
      THEN /\ attempt' = attempt + 1
           /\ wait' = w
           /\ UNCHANGED <<epc, i, t, all_embeddings>>
      ELSE ExtractRaises

InCall == epc \in {"batch", "item"}

\* status 200 with a list of vectors
Provider200 ==
    /\ InCall
    /\ only503' = FALSE
    /\ UNCHANGED saw401
    /\ ExtractReturns
    /\ UNCHANGED <<model_name, caller, texts, batch_size, outcome, rq, ingestVars>>
    /\ UNCHANGED <<chunkVars, cacheVars, raceVars>>
    /\ UNCHANGED last

\* status 503: wait_time = 5 * (attempt + 1); continue
Provider503 ==
    /\ InCall
    /\ Retry(5 * (attempt + 1))
    /\ UNCHANGED <<model_name, caller, texts, batch_size, outcome, rq, only503, saw401, ingestVars>>
    /\ UNCHANGED <<chunkVars, cacheVars, raceVars>>
    /\ UNCHANGED last

\* status 401: raise ValueError
Provider401 ==
    /\ InCall
    /\ only503' = FALSE
    /\ saw401' = TRUE
    /\ ExtractRaises
    /\ UNCHANGED <<model_name, caller, texts, batch_size, outcome, rq, ingestVars>>
    /\ UNCHANGED <<chunkVars, cacheVars, raceVars>>
    /\ UNCHANGED last

\* any other status, or a 200 whose body is no list of vectors:
\* time.sleep(2 * (attempt + 1))
ProviderOther ==
    /\ InCall
    /\ only503' = FALSE
    /\ UNCHANGED saw401
    /\ Retry(2 * (attempt + 1))
    /\ UNCHANGED <<model_name, caller, texts, batch_size, outcome, rq, ingestVars>>
    /\ UNCHANGED <<chunkVars, cacheVars, raceVars>>
    /\ UNCHANGED last

\* requests.post itself raises (timeout=60, connection refused)
ProviderTimeout ==
    /\ InCall
    /\ only503' = FALSE
    /\ UNCHANGED saw401
    /\ ExtractRaises
    /\ UNCHANGED <<model_name, caller, texts, batch_size, outcome, rq, ingestVars>>
    /\ UNCHANGED <<chunkVars, cacheVars, raceVars>>
    /\ UNCHANGED last

\* The start of generate_embeddings_batch(ts, bs) for caller c.
StartBatch(c, ts, bs) ==
    /\ caller' = c
    /\ texts' = ts
    /\ batch_size' = bs
    /\ i' = 0
    /\ t' = 1
    /\ attempt' = 0
    /\ wait' = 0
    /\ all_embeddings' = <<>>
    /\ only503' = TRUE
    /\ saw401' = FALSE
    /\ epc' = IF Len(ts) = 0 THEN "returned" ELSE "batch"


(***************************************************************************)
(* generate_embedding and generate_embeddings_batch as called directly.    *)
(***************************************************************************)
BatchSizes == {2, default_batch_size}

TextLists == UNION {[1..n -> SampleTexts] : n \in 0..MaxTexts}

\* generate_embeddings_batch(ts, batch_size=bs) is called
CallEmbedMany ==
    /\ epc = "idle"
    /\ \E ts \in TextLists, bs \in BatchSizes : StartBatch("embed_many", ts, bs)
    /\ outcome' = NoOutcome
    /\ UNCHANGED <<model_name, rq, ingestVars>>
    /\ UNCHANGED <<chunkVars, cacheVars, raceVars>>
    /\ UNCHANGED last

\* return all_embeddings
ReturnEmbedMany ==
    /\ epc = "returned"
    /\ caller = "embed_many"
    /\ outcome' = Value(all_embeddings)
    /\ epc' = "done"
    /\ UNCHANGED <<model_name, caller, texts, batch_size, i, t, attempt, wait, all_embeddings, only503, saw401, rq, ingestVars>>
    /\ UNCHANGED <<chunkVars, cacheVars, raceVars>>
    /\ UNCHANGED last

\* generate_embedding(text): the zero vector for an empty text without any
\* request, generate_embeddings_batch([text]) otherwise.
generate_embedding(c, text) ==
    IF text.blank
      THEN /\ caller' = c
           /\ texts' = <<text>>
           /\ all_embeddings' = <<ZeroVector(dimension(model_name))>>
           /\ epc' = "returned"
                  /\ only503' = TRUE
                  /\ saw401' = FALSE
           /\ UNCHANGED <<batch_size, i, t, attempt, wait>>
      ELSE StartBatch(c, <<text>>, default_batch_size)

\* generate_embedding(text) is called
CallEmbedOne ==
    /\ epc = "idle"
    /\ \E text \in SampleTexts : generate_embedding("embed_one", text)
    /\ outcome' = NoOutcome
    /\ UNCHANGED <<model_name, rq, ingestVars>>
    /\ UNCHANGED <<chunkVars, cacheVars, raceVars>>
    /\ UNCHANGED last

\* return self.generate_embeddings_batch([text])[0]
ReturnEmbedOne ==
    /\ epc = "returned"
    /\ caller = "embed_one"
    /\ outcome' = Value(all_embeddings[1])
    /\ epc' = "done"
    /\ UNCHANGED <<model_name, caller, texts, batch_size, i, t, attempt, wait, all_embeddings, only503, saw401, rq, ingestVars>>
    /\ UNCHANGED <<chunkVars, cacheVars, raceVars>>
    /\ UNCHANGED last


(***************************************************************************)
(* The retriever.                                                          *)
(***************************************************************************)
NaN == 999

\* Where the provider's embedding of a text lies; texts with near keys lie
\* near each other.
Angle(key) == IF key = <<>> THEN 0 ELSE key[1]

\* jc.embedding <=> query: the cosine distance, scaled to 0..200; NaN when
\* one of the two is the zero vector (0/0 in pgvector).
CosineDistance(e, q) ==
    IF e.of = "zero" \/ q.of = "zero"
      THEN NaN
      ELSE LET d == Angle(e.key) - Angle(q.key)
           IN  Min(200, 10 * (IF d < 0 THEN -d ELSE d))

Lower(ch) == CASE ch = "R" -> "r" [] ch = "B" -> "b" [] OTHER -> ch

\* value ILIKE '%pattern%'
ILike(value, pattern) ==
    \E o \in 0..(Len(value) - Len(pattern)) :
        \A k \in 1..Len(pattern) : Lower(value[o + k]) = Lower(pattern[k])

\* The WHERE clause of _build_similarity_query: the clauses of the filters
\* that are given, joined by AND.
Matches(c, q) ==
    /\ (q.location # <<>> => ILike(c.metadata.location, q.location))
    /\ (q.min_date # 0 => c.metadata.posted_date >= q.min_date)

Candidates(q) == {c \in store.chunks : Matches(c, q)}

SeqsOver(S, n) == {s \in [1..n -> S] : \A a, b \in 1..n : a # b => s[a] # s[b]}

\* ORDER BY jc.embedding <=> query LIMIT top_k: the first top_k candidates
\* by distance; PostgreSQL fixes no order among rows of equal distance, and
\* sorts NaN after every number.
Ranked(qv, q) ==
    LET C == Candidates(q)
        n == Min(q.top_k, Cardinality(C))
    IN  {s \in SeqsOver(C, n) :
            /\ \A a, b \in 1..n :
                 a < b => CosineDistance(s[a].embedding, qv) <= CosineDistance(s[b].embedding, qv)
            /\ \A c \in C \ Range(s) : \A a \in 1..n :
                 CosineDistance(s[a].embedding, qv) <= CosineDistance(c.embedding, qv)}

\* 1 - (jc.embedding <=> query) as similarity, as a percentage
Similarity(e, qv) ==
    IF CosineDistance(e, qv) = NaN THEN NaN ELSE 100 - CosineDistance(e, qv)

\* chunk_data of one row
ChunkData(c, qv) ==
    [chunk_id |-> c.id, text |-> c.chunk_text,
     similarity_score |-> Similarity(c.embedding, qv),
     metadata |-> c.metadata, job_posting_id |-> c.job_posting_id]

Locations == {<<"R", "e", "m">>, <<"B", "e", "r">>}

LocationFilters == {<<>>, <<"r", "e">>, <<"e">>}

RoleFilters == {<<>>, <<"m", "l">>}

Queries ==
    [query : SampleTexts, top_k : {1, retrieval_top_k},
     location : LocationFilters, min_date : {0, 2}, role : RoleFilters]

\* retrieve(query, top_k, filters) is called: it starts with
\* self.embedding_gen.generate_embedding(query)
CallRetrieve ==
    /\ epc = "idle"
    /\ \E q \in Queries :
         /\ rq' = q
         /\ generate_embedding("retrieve", q.query)
    /\ outcome' = NoOutcome
    /\ UNCHANGED <<model_name, ingestVars>>
    /\ UNCHANGED <<chunkVars, cacheVars, raceVars>>
    /\ UNCHANGED last

\* retrieve goes on with the query embedding: it runs the similarity query
\* and returns the formatted rows.  pgvector refuses to compare vectors of
\* different lengths, and retrieve re-raises every exception.
ReturnRetrieve ==
    /\ epc = "returned"
    /\ caller = "retrieve"
    /\ LET qv == all_embeddings[1]
       IN  IF Candidates(rq) # {} /\ qv.dim # embedding_dimension
             THEN outcome' = Error("different vector dimensions")
             ELSE \E s \in Ranked(qv, rq) :
                    outcome' = Value([k \in 1..Len(s) |-> ChunkData(s[k], qv)])
    /\ epc' = "done"
    /\ UNCHANGED <<model_name, caller, texts, batch_size, i, t, attempt, wait, all_embeddings, only503, saw401, rq, ingestVars>>
    /\ UNCHANGED <<chunkVars, cacheVars, raceVars>>
    /\ UNCHANGED last

\* The caller has its answer; the generator is free for the next call.
Done ==
    /\ epc = "done"
    /\ epc' = "idle"
    /\ caller' = "none"
    /\ texts' = <<>>
    /\ all_embeddings' = <<>>
    /\ outcome' = NoOutcome
    /\ rq' = NoQuery
    /\ last' = NoLast
    /\ only503' = TRUE
    /\ saw401' = FALSE
    /\ UNCHANGED <<model_name, batch_size, i, t, attempt, wait, ingestVars>>
    /\ UNCHANGED <<chunkVars, cacheVars, raceVars>>

\* The caller repeats the retrieve call it has just got a result from, with
\* the same arguments.
RetrieveAgain ==
    /\ epc = "done"
    /\ caller = "retrieve"
    /\ outcome.kind = "value"
    /\ last = NoLast
    /\ last' = [kind |-> "call", qv |-> all_embeddings[1], outcome |-> outcome]
    /\ generate_embedding("retrieve", rq.query)
    /\ outcome' = NoOutcome
    /\ UNCHANGED <<model_name, rq, ingestVars, chunkVars, cacheVars, raceVars>>


(***************************************************************************)
(* The posting store and the raw postings.                                 *)
(***************************************************************************)
JobIds == {1, 2}

DescLens == {100, 600}

SkillSets == {{"Python"}, {"Python", "AWS"}, {"PyTorch", "AWS"}}

\* A raw posting: its fingerprint, the length of its description, its skills.
RawPostings == [job_id : JobIds, description : DescLens, skills : SkillSets]

EmptyStore == [postings |-> {}, chunks |-> {}]

\* The rows whose job_id column equals jid: the comparison of the lookup
\* filter (JobPosting.job_id == job_data["job_id"]) and of the unique index.
ByJobId_WrongColumn(rows, jid) == {r \in rows : r.id = jid}

ByJobId(rows, jid) == {r \in rows : r.job_id = jid}

\* id = Column(Integer, primary_key=True): a key no row of the session has
NewId(rows) == MaxOf({r.id : r \in rows}) + 1

\* The characters of full_text around the description: the labels of
\* prepare_job_chunks' template (the lengths of the other fields are not counted).
TemplateLen == 73

FullLen(job) == TemplateLen + job.description

\* chunk_text on a text of len characters without sentence marks: the
\* windows [start, end) it cuts, from start on.
RECURSIVE Windows(_, _)
Windows(first, len) ==
    IF first >= len
      THEN <<>>
      ELSE LET end == first + chunk_size
           IN  <<<<first, Min(end, len)>>>> \o Windows(end - chunk_overlap, len)

chunk_spans(len) ==
    IF len <= chunk_size
      THEN (IF len = 0 THEN <<>> ELSE <<<<0, len>>>>)
      ELSE Windows(0, len)

\* prepare_job_chunks(job_data): text, index and metadata of every chunk
prepare_job_chunks(job) ==
    LET spans == chunk_spans(FullLen(job))
    IN  [k \in 1..Len(spans) |->
           [text |-> Text(<<job.job_id, job.description, spans[k][1], spans[k][2]>>, FALSE),
            index |-> k - 1,
            metadata |-> [title |-> <<"m", "l">>, location |-> <<"R", "e", "m">>,
                          posted_date |-> 2, skills |-> job.skills]]]

\* _should_update(existing, new_data)
should_update_NotStrict(existing, job) ==
    \/ job.description >= existing.description
    \/ Cardinality(job.skills) >= Cardinality(existing.skills)

should_update(existing, job) ==
    \/ job.description > existing.description
    \/ Cardinality(job.skills) > Cardinality(existing.skills)

\* _update_job(existing, new_data): the row after the update
update_job_Replace(existing, job) ==
    [existing EXCEPT
       !.description = IF job.description # 0 THEN job.description ELSE @,
       !.skills = job.skills]

update_job(existing, job) ==
    [existing EXCEPT
       !.description = IF job.description # 0 THEN job.description ELSE @,
       !.skills = @ \cup job.skills]

ZeroStats == [jobs_fetched |-> 0, jobs_new |-> 0, jobs_updated |-> 0,
              jobs_skipped |-> 0, chunks_created |-> 0, errors |-> 0]

NoCur == [job_id |-> 0, id |-> 0, chunks |-> <<>>]

Variants == {"service", "script"}

CommitEveryChoices == {2, commit_every_default}

IdleGenerator ==
    /\ caller = "none"
    /\ epc = "idle"

\* A run begins: fetch_and_ingest (or ingest_from_json) hands len(jobs) raw
\* postings to _ingest_jobs, on a session that holds no uncommitted write.
StartRun ==
    /\ ipc \in {"idle", "returned"}
    /\ IdleGenerator
    /\ runs < MaxRuns
    /\ runs' = runs + 1
    /\ \E v \in Variants, n \in 1..MaxJobs, ce \in CommitEveryChoices :
         /\ variant' = v
         /\ njobs' = n
         /\ commit_every' = IF v = "script" THEN ce ELSE 0
         /\ stats' = [ZeroStats EXCEPT !.jobs_fetched = n]
    /\ idx' = 0
    /\ db' = store
    /\ ipc' = "loop"
    /\ cur' = NoCur
    /\ counted' = {}
    /\ UNCHANGED <<store, embedVars>>
    /\ UNCHANGED <<chunkVars, cacheVars, raceVars>>

\* except Exception: self.db.rollback(); self.stats["errors"] += 1
Except ==
    /\ db' = store
    /\ stats' = [stats EXCEPT !.errors = @ + 1]
    /\ UNCHANGED <<store, counted>>

\* One turn of the loop for a raw posting whose fingerprint the session
\* finds: update or skip, then "continue".
IngestExisting(job) ==
    /\ ipc = "loop"
    /\ idx < njobs
    /\ ByJobId(db.postings, job.job_id) # {}
    /\ LET existing == CHOOSE r \in ByJobId(db.postings, job.job_id) : TRUE
       IN  IF should_update(existing, job)
             THEN /\ db' = [db EXCEPT !.postings = (@ \ {existing}) \cup {update_job(existing, job)}]
                  /\ stats' = [stats EXCEPT !.jobs_updated = @ + 1]
                  /\ counted' = counted \cup {job.job_id}
             ELSE /\ stats' = [stats EXCEPT !.jobs_skipped = @ + 1]
                  /\ UNCHANGED <<db, counted>>
    /\ idx' = idx + 1
    /\ UNCHANGED <<store, variant, commit_every, njobs, ipc, cur, runs, embedVars>>
    /\ UNCHANGED <<chunkVars, cacheVars, raceVars>>

\* One turn of the loop for a raw posting the session does not find, up to
\* the call of generate_embeddings_batch.  A raw posting without a title
\* raises KeyError; the unique index on job_id refuses a second row.
IngestNew(job, malformed) ==
    /\ ipc = "loop"
    /\ idx < njobs
    /\ ByJobId(db.postings, job.job_id) = {}
    /\ IdleGenerator
    /\ LET row == [id |-> NewId(db.postings), job_id |-> job.job_id,
                   description |-> job.description, skills |-> job.skills]
           chunks == prepare_job_chunks(job)
       IN  IF malformed \/ ByJobId(db.postings, row.job_id) # {}
             THEN /\ Except
                  /\ idx' = idx + 1
                  /\ UNCHANGED <<ipc, cur, embedVars>>
             ELSE IF chunks = <<>>
                    THEN /\ db' = [db EXCEPT !.postings = @ \cup {row}]
                         /\ stats' = [stats EXCEPT !.jobs_new = @ + 1]
                         /\ counted' = counted \cup {job.job_id}
                         /\ idx' = idx + 1
                         /\ UNCHANGED <<store, ipc, cur, embedVars>>
                    ELSE /\ db' = [db EXCEPT !.postings = @ \cup {row}]
                         /\ cur' = [job_id |-> job.job_id, id |-> row.id, chunks |-> chunks]
                         /\ ipc' = "embedding"
                         /\ StartBatch("ingest", [k \in 1..Len(chunks) |-> chunks[k].text],
                                       IF variant = "service" THEN service_batch_size
                                                              ELSE default_batch_size)
                         /\ UNCHANGED <<store, stats, counted, idx, model_name, outcome, rq>>
    /\ UNCHANGED <<variant, commit_every, njobs, runs>>
    /\ UNCHANGED <<chunkVars, cacheVars, raceVars>>
    /\ UNCHANGED last


\* A row of job_chunks whose embedding column is not written
NoVector == [of |-> "none", key |-> <<>>, dim |-> 0]

\* chunk = JobChunk(job_posting_id=..., chunk_text=..., chunk_index=...,
\* embedding=..., chunk_metadata=...): the row that self.db.add(chunk) inserts
JobChunk_WithoutEmbedding(id, posting_id, chunk_data, embedding) ==
    [id |-> id,
     job_posting_id |-> posting_id,
     chunk_text |-> chunk_data.text,
     chunk_index |-> chunk_data.index,
     embedding |-> NoVector,
     metadata |-> chunk_data.metadata]

JobChunk(id, posting_id, chunk_data, embedding) ==
    [id |-> id,
     job_posting_id |-> posting_id,
     chunk_text |-> chunk_data.text,
     chunk_index |-> chunk_data.index,
     embedding |-> embedding,
     metadata |-> chunk_data.metadata]

\* The rest of the turn for a new posting, once generate_embeddings_batch
\* has returned: zip(chunks, embeddings), one JobChunk per pair, the
\* counters, and the commit (the service after every new posting, the
\* script every commit_every postings).
IngestChunks(commit_ok) ==
    /\ ipc = "embedding"
    /\ epc = "returned"
    /\ caller = "ingest"
    /\ LET n == Min(Len(cur.chunks), Len(all_embeddings))
           first == NewId(db.chunks)
           rows == {JobChunk(first + k - 1, cur.id, cur.chunks[k], all_embeddings[k]) : k \in 1..n}
           added == [db EXCEPT !.chunks = @ \cup rows]
           counts == [stats EXCEPT !.chunks_created = @ + n, !.jobs_new = @ + 1]
           commits == \/ variant = "service"
                      \/ (idx + 1) % commit_every = 0
       IN  IF commits /\ ~commit_ok
             THEN /\ db' = store
                  /\ store' = store
                  /\ stats' = [counts EXCEPT !.errors = @ + 1]
             ELSE /\ db' = added
                  /\ store' = IF commits THEN added ELSE store
                  /\ stats' = counts
    /\ counted' = counted \cup {cur.job_id}
    /\ idx' = idx + 1
    /\ ipc' = "loop"
    /\ cur' = NoCur
    /\ epc' = "idle"
    /\ caller' = "none"
    /\ texts' = <<>>
    /\ all_embeddings' = <<>>
    /\ only503' = TRUE
    /\ saw401' = FALSE
    /\ UNCHANGED <<variant, commit_every, njobs, runs, model_name, batch_size, i, t,
                   attempt, wait, outcome, rq>>
    /\ UNCHANGED <<chunkVars, cacheVars, raceVars>>
    /\ UNCHANGED last

\* JobIngestionService._ingest_jobs ends with its loop: nothing follows the
\* last turn.
ReturnService ==
    /\ ipc = "loop"
    /\ idx = njobs
    /\ variant = "service"
    /\ ipc' = "returned"
    /\ UNCHANGED <<store, db, variant, commit_every, njobs, idx, stats, cur, counted, runs, embedVars>>
    /\ UNCHANGED <<chunkVars, cacheVars, raceVars>>

\* JobIngestionPipeline._ingest_jobs ends with a commit of its own; when it
\* raises, the session is rolled back and no counter changes.
FinalCommit(commit_ok) ==
    /\ ipc = "loop"
    /\ idx = njobs
    /\ variant = "script"
    /\ IF commit_ok
         THEN store' = db /\ db' = db
         ELSE store' = store /\ db' = store
    /\ ipc' = "returned"
    /\ UNCHANGED <<variant, commit_every, njobs, idx, stats, cur, counted, runs, embedVars>>
    /\ UNCHANGED <<chunkVars, cacheVars, raceVars>>

(***************************************************************************)
(* Two sessions of JobIngestionService._ingest_jobs on one database.       *)
(***************************************************************************)
Sessions == {1, 2}

NoJob == [job_id |-> 0, description |-> 0, skills |-> {}]

NoSession == [pc |-> "start", job |-> NoJob, pending |-> EmptyStore, ended |-> "none"]

\* The rows other transactions have written and not committed
PendingOfOthers(s) == UNION {sess[o].pending.postings : o \in Sessions \ {s}}

\* job_id = Column(String, unique=True, index=True): the unique index, on
\* flush, finds a row of the fingerprint among rows
UniqueViolation_NoIndex(rows, jid) == FALSE

UniqueViolation(rows, jid) == ByJobId(rows, jid) # {}

\* existing = self.db.query(JobPosting).filter(job_id == ...).first(): the
\* session sees what is committed.  A posting that is found is updated or
\* skipped, and the turn ends without a commit.
RaceLookup(s, job) ==
    /\ sess[s].pc = "start"
    /\ sess' = [sess EXCEPT ![s] =
                  IF ByJobId(store.postings, job.job_id) # {}
                    THEN [@ EXCEPT !.pc = "done", !.job = job, !.ended = "found"]
                    ELSE [@ EXCEPT !.pc = "create", !.job = job]]
    /\ UNCHANGED <<embedVars, ingestVars, chunkVars, cacheVars>>

\* self.db.add(job); self.db.flush(): the INSERT waits while another
\* transaction holds an uncommitted row of the fingerprint, raises
\* IntegrityError when a committed row has it (except: rollback, errors += 1),
\* and otherwise gives the row its id.
RaceFlush(s) ==
    /\ sess[s].pc = "create"
    /\ ~UniqueViolation(PendingOfOthers(s), sess[s].job.job_id)
    /\ LET job == sess[s].job
           row == [id |-> NewId(store.postings \cup PendingOfOthers(s)), job_id |-> job.job_id,
                   description |-> job.description, skills |-> job.skills]
       IN  sess' = [sess EXCEPT ![s] =
                      IF UniqueViolation(store.postings, job.job_id)
                        THEN [@ EXCEPT !.pc = "done", !.pending = EmptyStore,
                                       !.ended = "IntegrityError"]
                        ELSE [@ EXCEPT !.pc = "chunks", !.pending.postings = {row}]]
    /\ UNCHANGED <<embedVars, ingestVars, chunkVars, cacheVars>>

\* The chunks, their vectors (each the provider's or a zero vector), one
\* JobChunk per pair, and self.db.commit(); when the commit raises, the
\* transaction is rolled back.
RaceCommit(s, commit_ok) ==
    /\ sess[s].pc = "chunks"
    /\ LET job == sess[s].job
           posting == CHOOSE r \in sess[s].pending.postings : TRUE
           chunks == prepare_job_chunks(job)
           first == NewId(store.chunks)
       IN  \E embedded \in [1..Len(chunks) -> BOOLEAN] :
              LET rows == {JobChunk(first + k - 1, posting.id, chunks[k],
                                    IF embedded[k] THEN ProviderVector(chunks[k].text, model_name)
                                                   ELSE ZeroVector(dimension(model_name))) :
                              k \in 1..Len(chunks)}
              IN  IF commit_ok
                    THEN /\ store' = [postings |-> store.postings \cup {posting},
                                      chunks |-> store.chunks \cup rows]
                         /\ sess' = [sess EXCEPT ![s] = [@ EXCEPT !.pc = "done", !.pending = EmptyStore,
                                                                  !.ended = "new"]]
                    ELSE /\ store' = store
                         /\ sess' = [sess EXCEPT ![s] = [@ EXCEPT !.pc = "done", !.pending = EmptyStore,
                                                                  !.ended = "commit failed"]]
    /\ UNCHANGED <<db, variant, commit_every, njobs, idx, stats, ipc, cur, counted, runs>>
    /\ UNCHANGED <<embedVars, chunkVars, cacheVars>>

(***************************************************************************)
(* scripts/minimal_ingest.py: simple_ingest commits the posting, and then  *)
(* every chunk, by itself.                                                 *)
(***************************************************************************)
dummy_dimension == 384   \* embedding = [0.0] * 384

\* The raw postings of the JSON file: simple_ingest compares no skills, so
\* one skill list is enough.
MinimalPostings == {job \in RawPostings : job.skills = {"Python"}}

\* use_real_embeddings
MinimalVariants == {"minimal_dummy", "minimal_real"}

\* simple_ingest(json_file, use_real_embeddings) opens its session and
\* reads len(jobs) raw postings
StartMinimal ==
    /\ ipc \in {"idle", "returned"}
    /\ IdleGenerator
    /\ runs < MaxRuns
    /\ runs' = runs + 1
    /\ \E v \in MinimalVariants, n \in 1..MaxJobs :
         /\ variant' = v
         /\ njobs' = n
    /\ commit_every' = 0
    /\ stats' = ZeroStats
    /\ idx' = 0
    /\ db' = store
    /\ ipc' = "mloop"
    /\ cur' = NoCur
    /\ counted' = {}
    /\ UNCHANGED <<store, embedVars>>
    /\ UNCHANGED <<chunkVars, cacheVars, raceVars>>

\* One turn of "for job_data in jobs" up to the chunks: a posting that is
\* found with chunks is skipped, one found without chunks gets chunks, a new
\* one is added and committed.  An exception here leaves the loop: the
\* session is rolled back and closed.
MinimalJob(job, commit_ok) ==
    /\ ipc = "mloop"
    /\ idx < njobs
    /\ LET found == ByJobId(db.postings, job.job_id)
           chunks == prepare_job_chunks(job)
           row == [id |-> NewId(db.postings), job_id |-> job.job_id,
                   description |-> job.description, skills |-> job.skills]
       IN  IF found # {}
             THEN LET existing == CHOOSE r \in found : TRUE
                  IN  IF {c \in db.chunks : c.job_posting_id = existing.id} # {}
                        THEN /\ idx' = idx + 1
                             /\ UNCHANGED <<store, db, ipc, cur>>
                        ELSE /\ cur' = [job_id |-> job.job_id, id |-> existing.id, chunks |-> chunks]
                             /\ ipc' = "mchunk"
                             /\ UNCHANGED <<store, db, idx>>
             ELSE IF commit_ok
                    THEN /\ db' = [db EXCEPT !.postings = @ \cup {row}]
                         /\ store' = [db EXCEPT !.postings = @ \cup {row}]
                         /\ cur' = [job_id |-> job.job_id, id |-> row.id, chunks |-> chunks]
                         /\ ipc' = "mchunk"
                         /\ UNCHANGED idx
                    ELSE /\ db' = store
                         /\ ipc' = "returned"
                         /\ UNCHANGED <<store, idx, cur>>
    /\ UNCHANGED <<variant, commit_every, njobs, stats, counted, runs, embedVars>>
    /\ UNCHANGED <<chunkVars, cacheVars, raceVars>>

\* db.add(chunk); db.commit() for the chunk the loop is at, or db.rollback()
\* and "continue" when the commit raises; then the next chunk, or the next
\* posting.
StoreChunk(embedding, commit_ok) ==
    /\ LET row == JobChunk(NewId(db.chunks), cur.id, Head(cur.chunks), embedding)
       IN  IF commit_ok
             THEN /\ db' = [db EXCEPT !.chunks = @ \cup {row}]
                  /\ store' = [db EXCEPT !.chunks = @ \cup {row}]
             ELSE /\ db' = store
                  /\ store' = store
    /\ IF Tail(cur.chunks) = <<>>
         THEN /\ cur' = NoCur
              /\ ipc' = "mloop"
              /\ idx' = idx + 1
         ELSE /\ cur' = [cur EXCEPT !.chunks = Tail(@)]
              /\ ipc' = "mchunk"
              /\ idx' = idx

\* One turn of "for idx, chunk_data in enumerate(chunks)" with the dummy
\* embedding
MinimalChunkDummy(commit_ok) ==
    /\ ipc = "mchunk"
    /\ variant = "minimal_dummy"
    /\ StoreChunk(ZeroVector(dummy_dimension), commit_ok)
    /\ UNCHANGED <<variant, commit_every, njobs, stats, counted, runs, embedVars>>
    /\ UNCHANGED <<chunkVars, cacheVars, raceVars>>

\* With real embeddings: get_embedding_generator(), which raises without an
\* API key (the script then goes on with dummy embeddings), and
\* embedding_gen.generate_embedding(chunk_data["text"])
MinimalEmbed(loaded) ==
    /\ ipc = "mchunk"
    /\ variant = "minimal_real"
    /\ IdleGenerator
    /\ IF loaded
         THEN /\ generate_embedding("minimal", Head(cur.chunks).text)
              /\ ipc' = "membed"
              /\ UNCHANGED variant
         ELSE /\ variant' = "minimal_dummy"
              /\ UNCHANGED <<caller, epc, texts, batch_size, i, t, attempt, wait,
                             all_embeddings, only503, saw401, ipc>>
    /\ UNCHANGED <<store, db, commit_every, njobs, idx, stats, cur, counted, runs,
                   model_name, outcome, rq, last>>
    /\ UNCHANGED <<chunkVars, cacheVars, raceVars>>

\* generate_embedding has returned: the chunk is added and committed
MinimalChunkReal(commit_ok) ==
    /\ ipc = "membed"
    /\ epc = "returned"
    /\ caller = "minimal"
    /\ StoreChunk(all_embeddings[1], commit_ok)
    /\ epc' = "idle"
    /\ caller' = "none"
    /\ texts' = <<>>
    /\ all_embeddings' = <<>>
    /\ only503' = TRUE
    /\ saw401' = FALSE
    /\ UNCHANGED <<variant, commit_every, njobs, stats, counted, runs, model_name,
                   batch_size, i, t, attempt, wait, outcome, rq, last>>
    /\ UNCHANGED <<chunkVars, cacheVars, raceVars>>

\* The loop is over: the summary is logged and the session closed
MinimalReturn ==
    /\ ipc = "mloop"
    /\ idx = njobs
    /\ ipc' = "returned"
    /\ db' = store
    /\ UNCHANGED <<store, variant, commit_every, njobs, idx, stats, cur, counted, runs, embedVars>>
    /\ UNCHANGED <<chunkVars, cacheVars, raceVars>>

(***************************************************************************)
(* chunk_text on the characters of a text.                                 *)
(***************************************************************************)
Alphabet == {"a", ".", " "}

Texts == UNION {[1..n -> Alphabet] : n \in 0..MaxTextLen}

\* Texts with two kinds of sentence mark in the second half of their first
\* window of 9 characters: "aaaaa. ! aa", "aaaaa! . aa", "aaaaa? . aa".
MarkedTexts ==
    {<<"a", "a", "a", "a", "a", ".", " ", "!", " ", "a", "a">>,
     <<"a", "a", "a", "a", "a", "!", " ", ".", " ", "a", "a">>,
     <<"a", "a", "a", "a", "a", "?", " ", ".", " ", "a", "a">>}

ChunkSizes == {3, 7, 9}

Overlaps == {0, 2, 6, 7, 8}

\* the loop of a call that makes no progress is followed this far
MaxTurns == MaxOf({MaxTextLen} \cup {Len(x) : x \in MarkedTexts}) + 2

\* what str.strip() removes
Whitespace == {" ", "\n"}

\* for punct in ['. ', '! ', '? ', '\n\n']
Puncts == <<<<".", " ">>, <<"!", " ">>, <<"?", " ">>, <<"\n", "\n">>>>

\* A slice bound of Python on a sequence of n items: a negative bound
\* counts from the end, and every bound is clamped to 0..n.
SliceIndex(x, n) ==
    IF x < 0
      THEN (IF x + n < 0 THEN 0 ELSE x + n)
      ELSE Min(x, n)

\* s[a:b]
Slice(s, a, b) ==
    LET lo == SliceIndex(a, Len(s))
        hi == SliceIndex(b, Len(s))
    IN  IF lo >= hi THEN <<>> ELSE SubSeq(s, lo + 1, hi)

\* s.rfind(sub, a, b): the highest index at which sub lies within s[a:b],
\* or -1.
rfind(s, sub, a, b) ==
    LET lo == SliceIndex(a, Len(s))
        hi == SliceIndex(b, Len(s))
        hits == {j \in lo..(hi - Len(sub)) : SubSeq(s, j + 1, j + Len(sub)) = sub}
    IN  IF hits = {} THEN -1 ELSE MaxOf(hits)

\* s.strip()
strip(s) ==
    LET inked == {k \in 1..Len(s) : s[k] \notin Whitespace}
    IN  IF inked = {}
          THEN <<>>
          ELSE SubSeq(s, CHOOSE k \in inked : \A m \in inked : k <= m, MaxOf(inked))

\* The end of the window that starts at from: from + size, moved back
\* behind the last mark of the first kind of mark that lies in the second
\* half of the window, when the text goes on after the window.
WindowEnd(s, from, size) ==
    LET end == from + size
        found == {p \in 1..Len(Puncts) : rfind(s, Puncts[p], from, end) > from + size \div 2}
    IN  IF end < Len(s) /\ found # {}
          THEN LET p == CHOOSE q \in found : \A r \in found : q <= r
               IN  rfind(s, Puncts[p], from, end) + Len(Puncts[p])
          ELSE end

\* chunk_text(text, chunk_size, overlap) is called: a text of at most
\* chunk_size characters is returned as it is, a longer one enters the loop.
CallChunkText ==
    /\ cpc = "idle"
    /\ \E text \in Texts \cup MarkedTexts, size \in ChunkSizes, ov \in Overlaps :
         /\ ctext' = text
         /\ csize' = size
         /\ coverlap' = ov
         /\ IF Len(text) <= size
              THEN /\ cchunks' = IF text = <<>> THEN <<>> ELSE <<text>>
                   /\ cpc' = "done"
              ELSE /\ cchunks' = <<>>
                   /\ cpc' = "loop"
    /\ cstart' = 0
    /\ cturns' = 0
    /\ UNCHANGED <<embedVars, ingestVars, cacheVars, raceVars>>

\* One turn of "while start < len(text)"
ChunkTurn ==
    /\ cpc = "loop"
    /\ cstart < Len(ctext)
    /\ cturns < MaxTurns
    /\ LET end == WindowEnd(ctext, cstart, csize)
           chunk == strip(Slice(ctext, cstart, end))
       IN  /\ cchunks' = IF chunk # <<>> THEN Append(cchunks, chunk) ELSE cchunks
           /\ cstart' = end - coverlap
    /\ cturns' = cturns + 1
    /\ UNCHANGED <<ctext, csize, coverlap, cpc, embedVars, ingestVars, cacheVars, raceVars>>

\* The loop ends: return chunks
ChunkReturn ==
    /\ cpc = "loop"
    /\ ~(cstart < Len(ctext))
    /\ cpc' = "done"
    /\ UNCHANGED <<ctext, csize, coverlap, cstart, cchunks, cturns, embedVars, ingestVars, cacheVars, raceVars>>

(***************************************************************************)
(* The analysis cache: _cache_analysis and _get_cached_analysis.           *)
(***************************************************************************)
None == [kind |-> "none", value |-> <<>>]

Some(v) == [kind |-> "some", value |-> v]

\* (query, job_role, location); job_role and location are Optional
CacheKey(query, job_role, location) ==
    [query |-> query, job_role |-> job_role, location |-> location]

CacheKeys ==
    {CacheKey("ml skills", None, None),
     CacheKey("ml skills", Some("ML Engineer"), None)}

\* max_age_hours
MaxAges == {0, 2, 24}

\* dict.get(k, default)
Get(d, k, default) == IF k \in DOMAIN d THEN d[k] ELSE default

\* What analyze_skills hands to _cache_analysis: the analysis as the
\* generator and the normalisation left it, and the retrieved chunks (their
\* job_posting_id).
SampleAnalyses ==
    {[analysis |-> [summary |-> "PyTorch leads", top_skills |-> <<"PyTorch">>,
                    skill_frequencies |-> <<85>>, emerging_trends |-> <<"LLM">>,
                    emerging_skills |-> <<"LLM">>, total_jobs_analyzed |-> 2],
      retrieved_chunks |-> <<1, 2, 1>>],
     [analysis |-> [summary |-> "Python leads", top_skills |-> <<"Python">>,
                    skill_frequencies |-> <<90>>, total_jobs_analyzed |-> 1],
      retrieved_chunks |-> <<1>>]}

NoCacheOp ==
    [op |-> "none", key |-> CacheKey("", None, None), max_age |-> 0,
     analysis |-> <<>>, ok |-> TRUE, result |-> None]

\* cache_entry = SkillAnalysis(...), with analysis_date = datetime.utcnow()
cache_entry_CountsChunks(id, key, analysis, retrieved_chunks, date) ==
    [id |-> id, query |-> key.query, job_role |-> key.job_role, location |-> key.location,
     top_skills |-> Get(analysis, "top_skills", <<>>),
     skill_frequencies |-> Get(analysis, "skill_frequencies", <<>>),
     skill_necessity_scores |-> Get(analysis, "skill_necessity_scores", <<>>),
     emerging_skills |-> Get(analysis, "emerging_trends", <<>>),
     total_jobs_analyzed |-> Len(retrieved_chunks),
     source_job_ids |-> Range(retrieved_chunks),
     analysis_date |-> date]

cache_entry(id, key, analysis, retrieved_chunks, date) ==
    [id |-> id, query |-> key.query, job_role |-> key.job_role, location |-> key.location,
     top_skills |-> Get(analysis, "top_skills", <<>>),
     skill_frequencies |-> Get(analysis, "skill_frequencies", <<>>),
     skill_necessity_scores |-> Get(analysis, "skill_necessity_scores", <<>>),
     emerging_skills |-> Get(analysis, "emerging_trends", <<>>),
     total_jobs_analyzed |-> Cardinality(Range(retrieved_chunks)),
     source_job_ids |-> Range(retrieved_chunks),
     analysis_date |-> date]

\* The dictionary _get_cached_analysis builds from a row
cached_result(row) ==
    [summary |-> "Cached result",
     top_skills |-> row.top_skills,
     skill_frequencies |-> row.skill_frequencies,
     skill_necessity_scores |-> row.skill_necessity_scores,
     emerging_skills |-> row.emerging_skills,
     total_jobs_analyzed |-> row.total_jobs_analyzed,
     query |-> row.query,
     generated_at |-> row.analysis_date,
     from_cache |-> TRUE]

\* The rows the query of _get_cached_analysis may give as first(): those
\* of the key that are not older than the cutoff, the latest first.
get_cached_analysis_AnyAge(rows, key, max_age, clock) ==
    LET found == {r \in rows : /\ r.query = key.query
                               /\ r.job_role = key.job_role
                               /\ r.location = key.location}
    IN  {r \in found : \A o \in found : o.analysis_date <= r.analysis_date}

get_cached_analysis(rows, key, max_age, clock) ==
    LET cutoff_time == clock - max_age
        found == {r \in rows : /\ r.query = key.query
                               /\ r.job_role = key.job_role
                               /\ r.location = key.location
                               /\ r.analysis_date >= cutoff_time}
    IN  {r \in found : \A o \in found : o.analysis_date <= r.analysis_date}

\* _cache_analysis(query, job_role, location, analysis, retrieved_chunks):
\* one more row, committed; when the commit raises, the row is rolled back
\* and the exception is logged.  The clock has moved on when it returns.
CacheAnalysis(commit_ok) ==
    /\ Cardinality(skill_analyses) < MaxRows
    /\ now < MaxClock
    /\ \E key \in CacheKeys, a \in SampleAnalyses :
         /\ skill_analyses' =
              IF commit_ok
                THEN skill_analyses \cup
                       {cache_entry(NewId(skill_analyses), key, a.analysis, a.retrieved_chunks, now)}
                ELSE skill_analyses
         /\ cache_op' = [op |-> "store", key |-> key, max_age |-> 0,
                         analysis |-> a.analysis, ok |-> commit_ok, result |-> None]
    /\ now' = now + 1
    /\ UNCHANGED <<analyze_op, embedVars, ingestVars, chunkVars, raceVars>>

\* _get_cached_analysis(query, job_role, location, max_age_hours): the
\* dictionary of the first row of the query, or None when there is no row
\* or the query raises.
GetCachedAnalysis(query_ok) ==
    /\ \E key \in CacheKeys, max_age \in MaxAges :
         LET first == get_cached_analysis(skill_analyses, key, max_age, now)
         IN  \E res \in (IF query_ok THEN {Some(cached_result(r)) : r \in first} ELSE {})
                          \cup (IF query_ok /\ first # {} THEN {} ELSE {None}) :
                cache_op' = [op |-> "lookup", key |-> key, max_age |-> max_age,
                             analysis |-> <<>>, ok |-> query_ok, result |-> res]
    /\ UNCHANGED <<skill_analyses, now, analyze_op, embedVars, ingestVars, chunkVars, raceVars>>

(***************************************************************************)
(* analyze_skills.                                                         *)
(***************************************************************************)
NoAnalyzeOp ==
    [n |-> 0, key |-> CacheKey("", None, None), use_cache |-> FALSE, live_fetch |-> FALSE,
     max_age |-> 0, lookup |-> "skipped", retrieved |-> FALSE, generated |-> FALSE,
     stored |-> "no", at |-> 0, outcome |-> NoOutcome]

\* What self.retriever.retrieve gives analyze_skills: an exception, no
\* chunk, or chunks.
Retrievals == {"raises", "empty", "chunks"}

\* Whether analyze_skills calls _get_cached_analysis: a live fetch sets
\* use_cache = False before the cache is looked at.
cache_consulted_Never(use_cache, live_fetch) == FALSE

cache_consulted(use_cache, live_fetch) ==
    IF live_fetch THEN FALSE ELSE use_cache

\* What _get_cached_analysis may return to analyze_skills
cached_results(key, max_age, query_ok) ==
    LET first == get_cached_analysis(skill_analyses, key, max_age, now)
    IN  (IF query_ok THEN {Some(cached_result(r)) : r \in first} ELSE {})
          \cup (IF query_ok /\ first # {} THEN {} ELSE {None})

\* The dictionary analyze_skills returns when the retriever finds nothing
no_results(query) ==
    [error |-> "No relevant job postings found", query |-> query,
     suggestions |-> <<"Try broader search terms", "Check spelling", "Try different job titles">>]

\* Step 4 of analyze_skills: analysis['query'], analysis['generated_at']
enriched(analysis, query, clock) ==
    [f \in DOMAIN analysis \cup {"query", "generated_at"} |->
        CASE f = "query" -> query
          [] f = "generated_at" -> clock
          [] OTHER -> analysis[f]]

\* _cache_analysis as analyze_skills calls it: the rows after it, and
\* whether an exception leaves it (none does: "except Exception" logs the
\* failure and rolls the row back).
cache_analysis_Raises(rows, key, analysis, retrieved_chunks, clock, commit_ok) ==
    [rows |-> IF commit_ok
                THEN rows \cup {cache_entry(NewId(rows), key, analysis, retrieved_chunks, clock)}
                ELSE rows,
     raised |-> ~commit_ok]

cache_analysis(rows, key, analysis, retrieved_chunks, clock, commit_ok) ==
    [rows |-> IF commit_ok
                THEN rows \cup {cache_entry(NewId(rows), key, analysis, retrieved_chunks, clock)}
                ELSE rows,
     raised |-> FALSE]

\* analyze_skills(query, job_role, location, use_cache, cache_max_age_hours,
\* live_fetch), from call to return.  The job boards of a live fetch have
\* no posting for the query, so fetch_and_ingest returns before
\* _ingest_jobs; retrieval and synthesis take the clock one hour on.
AnalyzeSkills(query_ok, retrieval, synthesis_ok, commit_ok) ==
    /\ analyze_op.n < MaxCalls
    /\ \E key \in CacheKeys, use_cache \in BOOLEAN, max_age \in MaxAges,
          live_fetch \in BOOLEAN, a \in SampleAnalyses :
         LET consult == cache_consulted(use_cache, live_fetch)
             call == [NoAnalyzeOp EXCEPT !.n = analyze_op.n + 1, !.key = key,
                                         !.use_cache = use_cache, !.live_fetch = live_fetch,
                                         !.max_age = max_age, !.at = now]
         IN  \E cached \in (IF consult THEN cached_results(key, max_age, query_ok) ELSE {None}) :
                LET looked == [op |-> "lookup", key |-> key, max_age |-> max_age,
                               analysis |-> <<>>, ok |-> query_ok, result |-> cached]
                    miss == [call EXCEPT !.lookup = IF ~consult THEN "skipped"
                                                     ELSE IF query_ok THEN "miss" ELSE "failed",
                                         !.retrieved = TRUE]
                IN  IF cached # None
                      THEN /\ analyze_op' = [call EXCEPT !.lookup = "hit",
                                                         !.outcome = Value(cached.value)]
                           /\ cache_op' = looked
                           /\ UNCHANGED <<skill_analyses, now>>
                      ELSE /\ now < MaxClock
                           /\ now' = now + 1
                           /\ IF retrieval = "raises"
                                THEN /\ analyze_op' = [miss EXCEPT !.outcome = Error("retrieve")]
                                     /\ cache_op' = IF consult THEN looked ELSE cache_op
                                     /\ UNCHANGED skill_analyses
                                ELSE IF retrieval = "empty"
                                THEN /\ analyze_op' = [miss EXCEPT !.outcome = Value(no_results(key.query))]
                                     /\ cache_op' = IF consult THEN looked ELSE cache_op
                                     /\ UNCHANGED skill_analyses
                                ELSE IF ~synthesis_ok
                                THEN /\ analyze_op' = [miss EXCEPT !.generated = TRUE,
                                                                   !.outcome = Error("generate")]
                                     /\ cache_op' = IF consult THEN looked ELSE cache_op
                                     /\ UNCHANGED skill_analyses
                                ELSE LET analysis == enriched(a.analysis, key.query, now)
                                         after == cache_analysis(skill_analyses, key, analysis,
                                                                 a.retrieved_chunks, now, commit_ok)
                                     IN  /\ Cardinality(skill_analyses) < MaxRows
                                         /\ skill_analyses' = after.rows
                                         /\ cache_op' = [op |-> "store", key |-> key, max_age |-> 0,
                                                         analysis |-> analysis, ok |-> commit_ok,
                                                         result |-> None]
                                         /\ analyze_op' =
                                              [miss EXCEPT !.generated = TRUE,
                                                           !.stored = IF commit_ok THEN "ok" ELSE "failed",
                                                           !.outcome = IF after.raised
                                                                         THEN Error("cache")
                                                                         ELSE Value(analysis)]
    /\ UNCHANGED <<embedVars, ingestVars, chunkVars, raceVars>>

\* Time passes
Tick ==
    /\ now < MaxClock
    /\ now' = now + 1
    /\ UNCHANGED <<skill_analyses, cache_op, analyze_op, embedVars, ingestVars, chunkVars, raceVars>>

(***************************************************************************)
(* The specifications.                                                     *)
(***************************************************************************)
InitGenerator ==
    /\ caller = "none"
    /\ epc = "idle"
    /\ texts = <<>>
    /\ batch_size = default_batch_size
    /\ i = 0
    /\ t = 1
    /\ attempt = 0
    /\ wait = 0
    /\ all_embeddings = <<>>
    /\ only503 = TRUE
    /\ saw401 = FALSE
    /\ outcome = NoOutcome
    /\ rq = NoQuery
    /\ last = NoLast

InitIngestion ==
    /\ variant = "service"
    /\ commit_every = 0
    /\ njobs = 0
    /\ idx = 0
    /\ stats = ZeroStats
    /\ ipc = "idle"
    /\ cur = NoCur
    /\ counted = {}
    /\ runs = 0

\* Ingestion: an empty database and the generator of get_embedding_generator
\* (settings.embedding_model).
InitChunk ==
    /\ ctext = <<>>
    /\ csize = chunk_size
    /\ coverlap = chunk_overlap
    /\ cstart = 0
    /\ cchunks = <<>>
    /\ cpc = "idle"
    /\ cturns = 0

InitCache ==
    /\ skill_analyses = {}
    /\ now = 0
    /\ cache_op = NoCacheOp
    /\ analyze_op = NoAnalyzeOp

InitRace ==
    sess = [s \in Sessions |-> NoSession]

Init ==
    /\ InitGenerator
    /\ InitIngestion
    /\ InitChunk
    /\ InitCache
    /\ InitRace
    /\ model_name = MiniLM
    /\ store = EmptyStore
    /\ db = EmptyStore

Provider ==
    \/ Provider200
    \/ Provider503
    \/ Provider401
    \/ ProviderOther
    \/ ProviderTimeout

Next ==
    \/ StartRun
    \/ \E job \in RawPostings : IngestExisting(job)
    \/ \E job \in RawPostings, malformed \in BOOLEAN : IngestNew(job, malformed)
    \/ \E commit_ok \in BOOLEAN : IngestChunks(commit_ok)
    \/ ReturnService
    \/ \E commit_ok \in BOOLEAN : FinalCommit(commit_ok)
    \/ Provider

Spec == Init /\ [][Next]_vars

\* Runs of all three ingestion programs on one database
NextVariants ==
    \/ Next
    \/ StartMinimal
    \/ \E job \in MinimalPostings, commit_ok \in BOOLEAN : MinimalJob(job, commit_ok)
    \/ \E commit_ok \in BOOLEAN : MinimalChunkDummy(commit_ok)
    \/ \E loaded \in BOOLEAN : MinimalEmbed(loaded)
    \/ \E commit_ok \in BOOLEAN : MinimalChunkReal(commit_ok)
    \/ MinimalReturn

SpecVariants == Init /\ [][NextVariants]_vars

\* Two concurrent sessions of the service on an empty database
NextRace ==
    \/ \E s \in Sessions, job \in RawPostings : RaceLookup(s, job)
    \/ \E s \in Sessions : RaceFlush(s)
    \/ \E s \in Sessions, commit_ok \in BOOLEAN : RaceCommit(s, commit_ok)

SpecRace == Init /\ [][NextRace]_vars


\* A database as earlier ingestion runs may have left it: two postings, and
\* chunks of them, one of which was embedded while the provider failed and
\* one of which has the very text, and so the embedding, of another.
SamplePostings ==
    {[id |-> 1, job_id |-> 1, description |-> 100, skills |-> {"Python"}],
     [id |-> 2, job_id |-> 2, description |-> 100, skills |-> {"PyTorch", "AWS"}]}

SampleChunk(id, posting, index, vector, location, posted_date) ==
    [id |-> id, job_posting_id |-> posting,
     chunk_text |-> Text(<<posting, 100, 0, 173>>, FALSE),
     chunk_index |-> index, embedding |-> vector,
     metadata |-> [title |-> IF posting = 1 THEN <<"m", "l">> ELSE <<"o", "p", "s">>,
                   location |-> location, posted_date |-> posted_date,
                   skills |-> IF posting = 1 THEN {"Python"} ELSE {"PyTorch", "AWS"}]]

SampleChunks ==
    {SampleChunk(1, 1, 0, [of |-> "text", key |-> <<1, 100, 0, 173>>, dim |-> embedding_dimension],
                 <<"R", "e", "m">>, 2),
     SampleChunk(2, 2, 0, [of |-> "text", key |-> <<2, 100, 0, 173>>, dim |-> embedding_dimension],
                 <<"B", "e", "r">>, 1),
     SampleChunk(3, 2, 1, ZeroVector(embedding_dimension), <<"B", "e", "r">>, 2),
     [SampleChunk(4, 2, 2, [of |-> "text", key |-> <<1, 100, 0, 173>>, dim |-> embedding_dimension],
                  <<"R", "e", "m">>, 2)
        EXCEPT !.chunk_text = Text(<<1, 100, 0, 173>>, FALSE)]}

SampleStores == {[postings |-> SamplePostings, chunks |-> C] : C \in SUBSET SampleChunks}

\* The generator and the retriever, called directly on a populated
\* database; the generator is built for either configured model.
InitEmbed ==
    /\ InitGenerator
    /\ InitIngestion
    /\ InitChunk
    /\ InitCache
    /\ InitRace
    /\ model_name \in ModelNames
    /\ store \in SampleStores
    /\ db = store

NextEmbed ==
    \/ CallEmbedMany
    \/ ReturnEmbedMany
    \/ CallEmbedOne
    \/ ReturnEmbedOne
    \/ CallRetrieve
    \/ ReturnRetrieve
    \/ RetrieveAgain
    \/ Done
    \/ Provider

SpecEmbed == InitEmbed /\ [][NextEmbed]_vars

\* chunk_text, called once on any text with any of the configurations
NextChunk ==
    \/ CallChunkText
    \/ ChunkTurn
    \/ ChunkReturn

SpecChunk == Init /\ [][NextChunk]_vars

\* The analysis cache on an empty table
NextCache ==
    \/ \E commit_ok \in BOOLEAN : CacheAnalysis(commit_ok)
    \/ \E query_ok \in BOOLEAN : GetCachedAnalysis(query_ok)
    \/ Tick

SpecCache == Init /\ [][NextCache]_vars

\* analyze_skills, called again and again on an empty table while time
\* passes
NextAnalyze ==
    \/ \E query_ok \in BOOLEAN, retrieval \in Retrievals, synthesis_ok \in BOOLEAN, commit_ok \in BOOLEAN :
         AnalyzeSkills(query_ok, retrieval, synthesis_ok, commit_ok)
    \/ Tick

SpecAnalyze == Init /\ [][NextAnalyze]_vars


(***************************************************************************)
(* The claims about ingestion (specification Spec).                        *)
(***************************************************************************)
UniqueFingerprints(S) ==
    \A p, q \in S.postings : p.job_id = q.job_id => p = q

ChunksOf(S, id) == {c \in S.chunks : c.job_posting_id = id}

\* The session's row for a fingerprint.
RowOf(S, jid) == CHOOSE p \in S.postings : p.job_id = jid

\* The chunks prepare_job_chunks makes of a posting as it is stored.
DerivedChunks(p) ==
    LET chunks == prepare_job_chunks([job_id |-> p.job_id, description |-> p.description,
                                      skills |-> p.skills])
    IN  {[text |-> chunks[k].text, index |-> chunks[k].index,
          metadata |-> chunks[k].metadata] : k \in 1..Len(chunks)}

StoredChunks(S, p) ==
    {[text |-> c.chunk_text, index |-> c.chunk_index, metadata |-> c.metadata] :
        c \in ChunksOf(S, p.id)}

\* C1: the database and the session never hold two postings of one
\* fingerprint, and once a posting is committed every later step, of this
\* run or of a re-run, leaves exactly that one row for its fingerprint and
\* adds no chunk to it.
C1_OnePostingPerFingerprint ==
    /\ [](UniqueFingerprints(store) /\ UniqueFingerprints(db))
    /\ [][\A p \in store.postings :
            /\ \E q \in store'.postings : q.job_id = p.job_id /\ q.id = p.id
            /\ Cardinality({q \in store'.postings : q.job_id = p.job_id}) = 1
            /\ Cardinality({q \in db'.postings : q.job_id = p.job_id}) = 1
            /\ ChunksOf(store', p.id) = ChunksOf(store, p.id)
            /\ ChunksOf(db', p.id) = ChunksOf(store, p.id)]_vars

\* C1 witness: a re-run over two raw postings that were both stored has
\* returned, having skipped or updated both.
C1_Witness ==
    /\ runs = 2
    /\ ipc = "returned"
    /\ njobs = 2
    /\ stats.jobs_skipped + stats.jobs_updated = 2
    /\ Cardinality(store.postings) = 2
    /\ \A p \in store.postings : ChunksOf(store, p.id) # {}

\* C2: when a run returns, the session holds no uncommitted create or
\* update: what it counted is in the database.
C2_NothingPendingAtReturn ==
    ipc = "returned" => db = store

\* C3: a turn that ends in the error handler keeps every posting and chunk
\* the session held from earlier postings of the run.
C3_RollbackKeepsEarlierPostings ==
    [][stats'.errors > stats.errors =>
         /\ \A p \in db.postings : p.id # cur.id => p \in db'.postings
         /\ \A c \in db.chunks : c \in db'.chunks]_vars

\* C4: for a fingerprint the session finds, the posting is updated if and
\* only if the fetched description is strictly longer or the fetched skill
\* set strictly larger; otherwise it is counted as skipped and neither the
\* posting nor any chunk changes.
C4_UpdateIffRicher ==
    [][\A job \in RawPostings :
         IngestExisting(job) =>
           LET existing == RowOf(db, job.job_id)
               richer == \/ job.description > existing.description
                         \/ Cardinality(job.skills) > Cardinality(existing.skills)
           IN  IF richer
                 THEN /\ stats'.jobs_updated = stats.jobs_updated + 1
                      /\ stats'.jobs_skipped = stats.jobs_skipped
                      /\ RowOf(db', job.job_id) # existing
                 ELSE /\ stats'.jobs_skipped = stats.jobs_skipped + 1
                      /\ stats'.jobs_updated = stats.jobs_updated
                      /\ db' = db
                      /\ store' = store]_vars

\* C4 witness: a run has updated one posting and skipped another raw posting.
C4_Witness ==
    /\ stats.jobs_updated = 1
    /\ stats.jobs_skipped = 1

\* C5: an update leaves the union of the stored and the fetched skills, a
\* skip leaves the skills as they were, and the committed skill set of a
\* fingerprint never loses a skill.
C5_SkillsOnlyGrow ==
    [][/\ \A job \in RawPostings :
            IngestExisting(job) =>
              LET existing == RowOf(db, job.job_id)
              IN  RowOf(db', job.job_id).skills =
                    IF stats'.jobs_updated > stats.jobs_updated
                      THEN existing.skills \cup job.skills
                      ELSE existing.skills
       /\ \A p \in store.postings :
            \E q \in store'.postings : q.job_id = p.job_id /\ p.skills \subseteq q.skills]_vars

\* C5 witness: a committed posting holds three skills, which no raw
\* posting carries alone with "Python" first stored.
C5_Witness ==
    \E p \in store.postings :
        /\ p.skills = {"Python", "PyTorch", "AWS"}
        /\ \E c \in ChunksOf(store, p.id) : c.metadata.skills = {"Python"}

\* C6: when a run returns, the chunks of every posting it created or
\* updated are the chunks of the posting as it now is.
C6_UpdatedPostingIsRechunked ==
    ipc = "returned" =>
        \A p \in db.postings :
            p.job_id \in counted => StoredChunks(db, p) = DerivedChunks(p)

\* C7: when a run over n raw postings returns, new + updated + skipped +
\* errors = n.
C7_EveryPostingCountedOnce ==
    ipc = "returned" =>
        stats.jobs_new + stats.jobs_updated + stats.jobs_skipped + stats.errors = njobs

(***************************************************************************)
(* The claims about the generator and the retriever (SpecEmbed).           *)
(***************************************************************************)
\* C8: generate_embeddings_batch on n texts returns n vectors, each of the
\* generator's declared dimension (get_dimension()).
C8_BatchReturnsNVectorsOfDeclaredDimension ==
    (caller = "embed_many" /\ epc = "done" /\ \A k \in 1..Len(texts) : ~texts[k].blank) =>
        /\ Len(outcome.value) = Len(texts)
        /\ \A k \in 1..Len(outcome.value) : outcome.value[k].dim = dimension(model_name)

\* C9: while every answer of the provider is a 503, a request is attempted
\* at most max_retries times, after waits that grow with the attempt, and
\* generate_embedding of a text then ends in an error.
C9_ExhaustedRetriesRaise ==
    /\ attempt < max_retries
    /\ (InCall /\ only503) => wait = 5 * attempt
    /\ (caller = "embed_one" /\ epc = "done" /\ ~texts[1].blank /\ only503) =>
          outcome.kind = "error"

\* C10: when every answer of the provider was a 503, retrieve over a
\* database that holds matching chunks ends in an error: it returns no
\* result list.
C10_RetrieveFailsWhenProviderDown ==
    (caller = "retrieve" /\ epc = "done" /\ ~rq.query.blank /\ only503
        /\ Candidates(rq) # {}) =>
        outcome.kind = "error"

\* The vector at position k is the provider's vector of texts[k] or a zero
\* vector of the generator's dimension.
AtOwnPosition(embs) ==
    \A k \in 1..Len(embs) :
        embs[k] \in {ProviderVector(texts[k], model_name), ZeroVector(dimension(model_name))}

\* C11: a failed batch call discards nothing and adds nothing: the texts of
\* the batch are then requested one by one, a successful individual call
\* puts the provider's vector of texts[i + t] at position i + t and a failed
\* one a zero vector there, and the vectors already collected keep their
\* positions; generate_embeddings_batch returns one vector per text.
C11_FailedBatchRetriedPerItem ==
    /\ [](/\ AtOwnPosition(all_embeddings)
          /\ (epc = "item" => Len(all_embeddings) = i + t - 1)
          /\ (epc = "batch" => Len(all_embeddings) = i)
          /\ (caller = "embed_many" /\ epc = "done" =>
                Len(outcome.value) = Len(texts) /\ AtOwnPosition(outcome.value)))
    /\ [][InCall =>
            /\ (epc = "batch" /\ all_embeddings' # all_embeddings) =>
                  all_embeddings' = all_embeddings \o
                      [k \in 1..Len(Batch) |-> ProviderVector(Batch[k], model_name)]
            /\ (epc = "batch" /\ epc' = "item") =>
                  (t' = 1 /\ all_embeddings' = all_embeddings /\ i' = i)
            /\ (epc = "item" /\ all_embeddings' # all_embeddings) =>
                  all_embeddings' = Append(all_embeddings,
                      IF Provider200 THEN ProviderVector(texts[i + t], model_name)
                                     ELSE ZeroVector(dimension(model_name)))]_vars

\* Three texts in batches of two: the first batch call failed, its first
\* text succeeded alone and its second failed; the second batch succeeded.
C11_Witness ==
    /\ caller = "embed_many"
    /\ epc = "done"
    /\ Len(texts) = 3
    /\ batch_size = 2
    /\ \A k \in 1..3 : ~texts[k].blank
    /\ outcome.value[1] = ProviderVector(texts[1], model_name)
    /\ outcome.value[2] = ZeroVector(dimension(model_name))
    /\ outcome.value[3] = ProviderVector(texts[3], model_name)

\* C12: generate_embedding and generate_embeddings_batch return, for a text
\* that is empty or only whitespace, a zero vector of the declared dimension
\* at that text's position.
C12_BlankTextGivesZeroVector ==
    /\ (caller = "embed_one" /\ epc = "done" /\ texts[1].blank) =>
          outcome = Value(ZeroVector(dimension(model_name)))
    /\ (caller = "embed_many" /\ epc = "done") =>
          /\ outcome.kind = "value"
          /\ \A k \in 1..Len(texts) :
                texts[k].blank => outcome.value[k] = ZeroVector(dimension(model_name))

\* C13: with 0 <= overlap < chunk_size, every turn of the loop of
\* chunk_text that is followed by another begins further on in the text
\* than the one before, so the loop ends.
C13_StartAdvancesEveryTurn ==
    [][(cpc = "loop" /\ cpc' = "loop" /\ 0 <= coverlap /\ coverlap < csize) =>
          cstart' > cstart]_vars

\* C14: chunk_text called with overlap >= chunk_size on a text longer than
\* chunk_size does not enter its loop: the call ends in an error.
C14_OverlapNotBelowSizeRejected ==
    (cpc # "idle" /\ coverlap >= csize /\ Len(ctext) > csize) => cpc = "error"

\* C15: chunk_text on a text of at most chunk_size characters returns one
\* chunk, the text without its surrounding whitespace, and no chunk for the
\* empty text.
C15_ShortTextIsOneTrimmedChunk ==
    (cpc = "done" /\ Len(ctext) <= csize) =>
        cchunks = IF ctext = <<>> THEN <<>> ELSE <<strip(ctext)>>

\* C19: _get_cached_analysis returns the dictionary of a row only if the
\* row has exactly the key (query, job_role, location) asked for and is not
\* older than max_age, and then no other such row is younger; when no row
\* of the key is that young it returns None, and it returns a row whenever
\* there is one and the query does not fail.
C19_LookupReturnsLatestFreshRow ==
    [][(cache_op'.op = "lookup" /\ now' = now /\ skill_analyses' = skill_analyses) =>
          LET key == cache_op'.key
              matching == {r \in skill_analyses : /\ r.query = key.query
                                                  /\ r.job_role = key.job_role
                                                  /\ r.location = key.location}
              fresh == {r \in matching : now - r.analysis_date <= cache_op'.max_age}
          IN  /\ cache_op'.result # None =>
                    \E r \in fresh :
                        /\ \A o \in fresh : o.analysis_date <= r.analysis_date
                        /\ cache_op'.result = Some(cached_result(r))
              /\ fresh = {} => cache_op'.result = None
              /\ (fresh # {} /\ cache_op'.ok) => cache_op'.result # None]_vars

\* Three rows of one key, created at 0, 1 and 2; at 3 a lookup with max_age
\* 2 passed over the first, which is too old, and returned the last.
C19_Witness ==
    /\ cache_op.op = "lookup"
    /\ cache_op.max_age = 2
    /\ now = 3
    /\ {r.analysis_date : r \in {x \in skill_analyses : x.job_role = cache_op.key.job_role}} = {0, 1, 2}
    /\ cache_op.result.kind = "some"
    /\ cache_op.result.value.generated_at = 2

\* C20: a lookup that follows a successful _cache_analysis of the same key
\* returns the stored analysis when max_age is 24 hours (every field it
\* returns has the value of the stored analysis) and None when max_age is 0.
C20_StoreThenLookup ==
    [][(/\ cache_op.op = "store" /\ cache_op.ok
        /\ cache_op'.op = "lookup" /\ cache_op'.ok
        /\ cache_op'.key = cache_op.key) =>
          /\ cache_op'.max_age = 24 =>
                /\ cache_op'.result.kind = "some"
                /\ \A f \in DOMAIN cache_op.analysis \cap DOMAIN cache_op'.result.value :
                      cache_op'.result.value[f] = cache_op.analysis[f]
          /\ cache_op'.max_age = 0 => cache_op'.result = None]_vars

\* C16: retrieve returns at most top_k results, and no result has a higher
\* similarity score than the one before it (PostgreSQL's order of floats,
\* in which NaN is above every number).
C16_AtMostTopKInScoreOrder ==
    (caller = "retrieve" /\ epc = "done" /\ outcome.kind = "value") =>
        /\ Len(outcome.value) <= rq.top_k
        /\ \A a, b \in 1..Len(outcome.value) :
              a < b => outcome.value[a].similarity_score >= outcome.value[b].similarity_score

\* C17: every result of retrieve satisfies each filter the caller gave: the
\* location pattern, the minimum posted date and the role keyword.
C17_ResultsSatisfyEveryFilter ==
    (caller = "retrieve" /\ epc = "done" /\ outcome.kind = "value") =>
        \A k \in 1..Len(outcome.value) :
            LET metadata == outcome.value[k].metadata
            IN  /\ rq.location # <<>> => ILike(metadata.location, rq.location)
                /\ rq.min_date # 0 => metadata.posted_date >= rq.min_date
                /\ rq.role # <<>> => ILike(metadata.title, rq.role)

\* C18: a retrieve call repeated with the same arguments on the same
\* database, whose query got the same embedding, returns the same results
\* in the same order.
C18_RepeatedRetrieveSameResults ==
    (/\ caller = "retrieve" /\ epc = "done"
     /\ last.kind = "call" /\ outcome.kind = "value"
     /\ all_embeddings[1] = last.qv /\ last.qv.of = "text") =>
        outcome = last.outcome

(***************************************************************************)
(* Further claims about ingestion (Spec) and chunk_text (SpecChunk).       *)
(***************************************************************************)
\* C29: an update of a posting never leaves it a shorter description than
\* the session held for its fingerprint before the update.
C29_DescriptionNeverShrinks ==
    [][stats'.jobs_updated > stats.jobs_updated =>
         \A p \in db.postings : \A q \in db'.postings :
             q.job_id = p.job_id => q.description >= p.description]_vars

\* C30: with 0 <= overlap < chunk_size, once a window of chunk_text has
\* reached the end of the text no later turn adds a chunk.
C30_NoChunkAfterTextEnd ==
    [][(/\ cpc = "loop" /\ cturns > 0
        /\ 0 <= coverlap /\ coverlap < csize
        /\ cstart + coverlap >= Len(ctext)) =>
          cchunks' = cchunks]_vars

\* C26: a turn of chunk_text whose window ends before the end of the text
\* cuts behind the last sentence mark of the window, of whichever kind,
\* among the marks that begin after the middle of the window, and at the
\* window's end when there is no such mark.
C26_CutsAtNearestBoundary ==
    [][(/\ cpc = "loop" /\ cturns' = cturns + 1
        /\ cstart >= 0 /\ cstart + csize < Len(ctext)) =>
          LET end == cstart + csize
              marks == {j \in cstart..end :
                          /\ j > cstart + csize \div 2
                          /\ \E p \in 1..Len(Puncts) :
                                /\ j + Len(Puncts[p]) <= end
                                /\ SubSeq(ctext, j + 1, j + Len(Puncts[p])) = Puncts[p]}
          IN  cstart' + coverlap = IF marks = {} THEN end ELSE MaxOf(marks) + 2]_vars

(***************************************************************************)
(* Further claims about the generator (SpecEmbed).                         *)
(***************************************************************************)
\* C27: a call of generate_embedding or generate_embeddings_batch during
\* which the provider answered 401 ends in an error: it returns no vectors.
C27_CredentialRejectionIsAnError ==
    (caller \in {"embed_one", "embed_many"} /\ epc = "done" /\ saw401) =>
        outcome.kind = "error"

(***************************************************************************)
(* Further claims about ingestion (Spec).                                  *)
(***************************************************************************)
\* The chunks of posting p in S are those prepare_job_chunks made of a raw
\* posting of its fingerprint: one row per segment, with the segment's
\* index and text, and with the provider's vector of that text or the zero
\* vector the generator gave for it.
ChunksInOrder(S, p) ==
    \E job \in RawPostings :
        /\ job.job_id = p.job_id
        /\ LET chunks == prepare_job_chunks(job)
               rows == ChunksOf(S, p.id)
           IN  /\ Cardinality(rows) = Len(chunks)
               /\ \A k \in 1..Len(chunks) :
                     \E c \in rows :
                         /\ c.chunk_index = k - 1
                         /\ c.chunk_index = chunks[k].index
                         /\ c.chunk_text = chunks[k].text
                         /\ c.embedding \in {ProviderVector(chunks[k].text, model_name),
                                             ZeroVector(dimension(model_name))}

\* C25: every posting of the database, and every posting of the session
\* whose turn is over, has exactly the n chunks of its n segments, with
\* indices 0..n-1 in the chunker's order, and chunk k carries the vector the
\* generator returned for segment k.
C25_ChunksMatchSegmentsInOrder ==
    /\ \A p \in store.postings : ChunksInOrder(store, p)
    /\ \A p \in db.postings : p.id # cur.id => ChunksInOrder(db, p)

\* C25 witness: a committed posting of two segments whose batch call
\* failed; alone, the first segment got its vector and the second failed.
C25_Witness ==
    \E p \in store.postings :
        /\ Cardinality(ChunksOf(store, p.id)) = 2
        /\ \E c \in ChunksOf(store, p.id) :
              c.chunk_index = 0 /\ c.embedding = ProviderVector(c.chunk_text, model_name)
        /\ \E c \in ChunksOf(store, p.id) :
              c.chunk_index = 1 /\ c.embedding = ZeroVector(dimension(model_name))

(***************************************************************************)
(* The claims about analyze_skills (SpecAnalyze) and about the store of    *)
(* the cache (SpecCache).                                                  *)
(***************************************************************************)
\* The row a call of analyze_skills stored: the one of its key and its hour.
StoredBy(op) ==
    {r \in skill_analyses : /\ r.query = op.key.query
                            /\ r.job_role = op.key.job_role
                            /\ r.location = op.key.location
                            /\ r.analysis_date = op.at}

\* The call of analyze_skills that this step makes is served from the
\* cache: it invokes neither the retriever nor the generator and returns
\* the dictionary of the row the call before it stored.
ServedFromCache ==
    /\ analyze_op'.lookup = "hit"
    /\ ~analyze_op'.retrieved
    /\ ~analyze_op'.generated
    /\ skill_analyses' = skill_analyses
    /\ \E r \in StoredBy(analyze_op) : analyze_op'.outcome = Value(cached_result(r))

C22_StoreFailureNotPropagated ==
    [][(analyze_op'.n = analyze_op.n + 1 /\ analyze_op'.stored = "failed") =>
          /\ analyze_op'.generated
          /\ analyze_op'.outcome.kind = "value"
          /\ analyze_op'.outcome.value = cache_op'.analysis
          /\ \E a \in SampleAnalyses :
                analyze_op'.outcome.value = enriched(a.analysis, analyze_op'.key.query, now)
          /\ skill_analyses' = skill_analyses]_vars

\* C22 witness: a call whose store failed has returned an analysis.
C22_Witness ==
    /\ analyze_op.stored = "failed"
    /\ cache_op.op = "store"
    /\ ~cache_op.ok
    /\ analyze_op.outcome.kind = "value"
    /\ analyze_op.outcome.value.summary = "PyTorch leads"

\* C23: no step modifies or removes a row of skill_analyses; a successful
\* _cache_analysis adds exactly one row, under a new id, with the key of the
\* call, and its total_jobs_analyzed is the number of distinct
\* job_posting_id of the retrieved chunks.
C23_StoreAppendsOneRow ==
    [][/\ skill_analyses \subseteq skill_analyses'
       /\ (\E commit_ok \in BOOLEAN : CacheAnalysis(commit_ok)) /\ cache_op'.ok =>
             \E r \in skill_analyses' \ skill_analyses :
                 /\ skill_analyses' = skill_analyses \cup {r}
                 /\ \A o \in skill_analyses : o.id # r.id
                 /\ CacheKey(r.query, r.job_role, r.location) = cache_op'.key
                 /\ \E a \in SampleAnalyses :
                       /\ a.analysis = cache_op'.analysis
                       /\ r.total_jobs_analyzed = Cardinality(Range(a.retrieved_chunks))
                       /\ r.total_jobs_analyzed = Cardinality(r.source_job_ids)]_vars

\* C23 witness: a second row of a key was stored beside the first, from
\* three chunks of two postings.
C23_Witness ==
    /\ cache_op.op = "store"
    /\ cache_op.ok
    /\ \E r, o \in skill_analyses :
          /\ r.id # o.id
          /\ CacheKey(r.query, r.job_role, r.location) = cache_op.key
          /\ CacheKey(o.query, o.job_role, o.location) = cache_op.key
          /\ r.analysis_date = now - 1
          /\ o.analysis_date < r.analysis_date
          /\ r.total_jobs_analyzed = 2

C28_OneWinnerNoLeftovers ==
    /\ UniqueFingerprints(store)
    /\ \A c \in store.chunks : \E p \in store.postings : p.id = c.job_posting_id
    /\ \A p \in store.postings : ChunksInOrder(store, p)
    /\ \A s \in Sessions :
          sess[s].ended \in {"IntegrityError", "commit failed"} => sess[s].pending = EmptyStore

\* C28 witness: both sessions looked up one fingerprint and found nothing;
\* one committed its posting, the INSERT of the other was refused.
C28_Witness ==
    /\ sess[1].job.job_id = sess[2].job.job_id
    /\ sess[1].job # sess[2].job
    /\ sess[1].ended = "new"
    /\ sess[2].ended = "IntegrityError"
    /\ Cardinality(store.postings) = 1
    /\ \E p \in store.postings : p.description = sess[1].job.description /\ ChunksOf(store, p.id) # {}

====
